---- MODULE Spec2Model ----
(***************************************************************************)
(* A model of the fixp library: the fixed<FractionalBits, Storage,         *)
(* Intermediate> value type and its operators (fixp.hpp), the decimal      *)
(* formatter, the sine/cosine and square-root approximations, and the      *)
(* NEON batch kernels (simd_neon.hpp).                                     *)
(*                                                                         *)
(* The library is a set of pure functions.  Each group of functions has    *)
(* its own specification: Init draws the inputs, and one action per        *)
(* function applies it.  Integers are modelled with the width the code     *)
(* gives them.                                                             *)
(***************************************************************************)
EXTENDS Integers, Sequences, FiniteSets

VARIABLES
    ar,     \* one call of an arithmetic operator: inputs, operator, outcome
    sq,     \* one call of sqrt: its position, locals, and what it has read
    tr,     \* one call of sin or cos: input, quadrant, remapped value, result
    fm,     \* one call of the decimal formatter: input and text
    mem,    \* the memory holding the arrays handed to the batch kernels
    kn,     \* the running batch kernel invocations: arguments, position, registers
    cv,     \* one construction from a float and the conversion back
    cs      \* one call of to_cstring: its position, locals and the buffer

vars == <<ar, sq, tr, fm, mem, kn, cv, cs>>

\* A group of functions that a specification does not exercise.
Idle == [pc |-> "idle"]

(***************************************************************************)
(* Machine integers                                                        *)
(***************************************************************************)

\* Width of int, the type every narrower operand is promoted to.
IntBits == 32

RECURSIVE Power2(_)
Power2(n) == IF n = 0 THEN 1 ELSE 2 * Power2(n - 1)

\* The powers of two an int holds.
Powers == [n \in 0 .. IntBits - 2 |-> Power2(n)]
Pow2(n) == Powers[n]

IntMax == (Pow2(IntBits - 2) - 1) + Pow2(IntBits - 2)
IntMin == (-IntMax) - 1

Abs(x) == IF x < 0 THEN -x ELSE x

\* Narrowing conversion to a signed integer of w bits (w < IntBits): the
\* value modulo 2^w, in [-2^(w-1), 2^(w-1)).
Wrap(x, w) ==
    IF w >= IntBits THEN x
    ELSE ((x + Pow2(w - 1)) % Pow2(w)) - Pow2(w - 1)

\* x / y of C++ on signed integers: the quotient truncated toward zero.
CDiv(x, y) ==
    IF (x >= 0) = (y > 0) THEN Abs(x) \div Abs(y) ELSE -(Abs(x) \div Abs(y))

\* x % y of C++: the remainder has the sign of the dividend.
CMod(x, y) == x - y * CDiv(x, y)

\* x >> n on a signed integer: the arithmetic shift.
Shr(x, n) == x \div Pow2(n)

\* x << n.
Shl(x, n) == x * Pow2(n)

\* x & y on two's complement integers.
RECURSIVE BitAnd(_, _)
BitAnd(x, y) ==
    IF x = 0 \/ y = 0 THEN 0
    ELSE IF x = -1 THEN y
    ELSE IF y = -1 THEN x
    ELSE (x % 2) * (y % 2) + 2 * BitAnd(x \div 2, y \div 2)

(***************************************************************************)
(* fixed<12, int16_t, int32_t> and the widened fixed<12, int32_t, int32_t> *)
(***************************************************************************)

FracBits == 12
StorageBits == 16
IntermediateBits == 32

TotalBits == StorageBits
IntegralBits == TotalBits - FracBits
Scale == Wrap(Shl(1, FracBits), StorageBits)
FracMask == Wrap(Shr(Shl(-1, FracBits), FracBits), StorageBits)

StorageMin == -Pow2(StorageBits - 1)
StorageMax == Pow2(StorageBits - 1) - 1
Raws == StorageMin .. StorageMax

\* What a call produces: a value, or no value when the build faults.
Value(r) == [kind |-> "value", raw |-> r]
Fault == [kind |-> "fault", raw |-> 0]
NoResult == [kind |-> "none", raw |-> 0]

\* fixed(float f) with the product rounded to the nearest integer.
FromFloatNearest(m, e, w) ==
    Wrap((2 * m + Pow2(e - FracBits)) \div (2 * Pow2(e - FracBits)), w)

\* fixed(float f): f * Scale cast to Storage, for the float m * 2^-e
\* (e >= FracBits, so the product is exact and the cast truncates).
FromFloat(m, e, w) == Wrap(CDiv(m, Pow2(e - FracBits)), w)

\* fixed(T x) for a signed integer x.
FromInt(n, w) == Wrap(n * Scale, w)

\* a + b and a - b on int operands: defined when the result fits int;
\* otherwise signed overflow (undefined), where a build wraps or traps.
SumFits(a, b) ==
    /\ (b > 0 => a <= IntMax - b)
    /\ (b < 0 => a >= IntMin - b)

DiffFits(a, b) ==
    /\ (b < 0 => a <= IntMax + b)
    /\ (b > 0 => a >= IntMin + b)

\* The results modulo 2^IntBits, computed without leaving the int range.
WrapSum(a, b) ==
    IF b > 0 THEN ((a - IntMax) - 1) + ((b - IntMax) - 1)
    ELSE ((a + IntMax) + 1) + ((b + IntMax) + 1)

WrapDiff(a, b) ==
    IF b < 0 THEN ((a - IntMax) - 1) - ((b + IntMax) + 1)
    ELSE ((a + IntMax) + 1) - ((b - IntMax) - 1)

IntSum(a, b) ==
    IF SumFits(a, b) THEN {Value(a + b)} ELSE {Value(WrapSum(a, b)), Fault}

IntDiff(a, b) ==
    IF DiffFits(a, b) THEN {Value(a - b)} ELSE {Value(WrapDiff(a, b)), Fault}

IntNegate(a) == IF a = IntMin THEN {Value(IntMin), Fault} ELSE {Value(-a)}

\* static_cast<Storage> of each outcome.
Narrow(outcomes, w) ==
    {IF o.kind = "value" THEN Value(Wrap(o.raw, w)) ELSE o : o \in outcomes}

\* operator+, operator-, unary operator-: the outcomes for Storage of w bits.
Add(a, b, w) == Narrow(IntSum(a, b), w)

Sub(a, b, w) == Narrow(IntDiff(a, b), w)

Neg(a, w) == Narrow(IntNegate(a), w)

\* The value of an operator on fixed<12, int16_t, int32_t>, where int holds
\* every sum and difference and the outcome is single.
Only(outcomes) == (CHOOSE o \in outcomes : TRUE).raw
Plus(a, b) == Only(Add(a, b, StorageBits))
Minus(a, b) == Only(Sub(a, b, StorageBits))

\* operator* with the product narrowed to Storage before the shift.
MulNoWiden(a, b) ==
    Wrap(Shr(Wrap(a * b, StorageBits), FracBits), StorageBits)

\* operator* with the shift replaced by a division by Scale.
MulTowardZero(a, b) == Wrap(CDiv(a * b, Pow2(FracBits)), StorageBits)

\* operator*: the product in Intermediate, shifted right, cast to Storage.
Mul(a, b) == Wrap(Shr(a * b, FracBits), StorageBits)

\* operator/ with a quotient rounded toward negative infinity.
DivFloor(a, b) ==
    Value(Wrap((Shl(a, FracBits) * (IF b < 0 THEN -1 ELSE 1)) \div Abs(b),
               StorageBits))

\* operator/ with half the divisor added to the numerator, which rounds
\* the quotient to the nearest value.
DivNearest(a, b) ==
    Value(Wrap(CDiv(Shl(a, FracBits) + CDiv(b, 2), b), StorageBits))

\* operator/ for b.raw # 0: the numerator shifted left in Intermediate,
\* divided, cast.
Div(a, b) == Value(Wrap(CDiv(Shl(a, FracBits), b), StorageBits))

\* operator% for b.raw # 0.
Mod(a, b) == Value(Wrap(CMod(a, b), StorageBits))

\* x / 0 and x % 0 on integers are undefined.  The division instruction
\* of the host traps, or it completes with quotient 0 and the remainder
\* a - 0 * b computed from it (as sdiv and msub do on AArch64).
DivByZero(a) == {Fault, Value(0)}
ModByZero(a) == {Fault, Value(a)}

\* truncate as a shift, which rounds toward negative infinity.
TruncateFloor(a) == Wrap(Shr(a, FracBits), StorageBits)

\* truncate.
Truncate(a) == Wrap(CDiv(a, Scale), StorageBits)

(***************************************************************************)
(* Arithmetic: one operator applied to constructed operands                *)
(***************************************************************************)

\* Distance between the raw values sampled for both operands of a binary
\* operator, and between those sampled for the left operand alone.
PairStride == 1021
LeftStride == 13

\* Raw values next to the places where the operators change behaviour.
EdgeRaws ==
    {StorageMin, StorageMin + 1, -2 * Scale, -Scale - 1, -Scale, -Scale + 1,
     -2, -1, 0, 1, 2, Scale - 1, Scale, Scale + 1, 2 * Scale,
     StorageMax - 1, StorageMax}

PairRaws == EdgeRaws \cup {r \in Raws : r % PairStride = 0}

LeftRaws == PairRaws \cup {r \in Raws : r % LeftStride = 0}

EdgeInts == {IntMin, IntMin + 1, -1, 0, 1, IntMax - 1, IntMax}

\* The float literals the tests construct values from, as m * 2^-e.
FloatLiterals ==
    { [m |-> 8698986, e |-> 22],      \* 2.074f
      [m |-> -10485739, e |-> 21],    \* -4.99999f
      [m |-> 10569562, e |-> 23] }    \* 1.25999f

\* The ways the left operand is built: from_raw(s), fixed(T x), fixed(float).
Sources ==
    {[ctor |-> "raw", n |-> r, e |-> 0] : r \in LeftRaws}
    \cup {[ctor |-> "int", n |-> k, e |-> 0] :
            k \in -Pow2(IntegralBits - 1) .. Pow2(IntegralBits - 1) - 1}
    \cup {[ctor |-> "float", n |-> f.m, e |-> f.e] : f \in FloatLiterals}

Build(src) ==
    CASE src.ctor = "raw" -> src.n
      [] src.ctor = "int" -> FromInt(src.n, StorageBits)
      [] src.ctor = "float" -> FromFloat(src.n, src.e, StorageBits)

\* The right operands tried with a left operand a.
RightOperands(a) ==
    (IF a \in PairRaws THEN PairRaws ELSE {0, Scale, a})
        \cup {FromInt(3, StorageBits)}

ArithInit ==
    \/ \E src \in Sources :
         \E b \in RightOperands(Build(src)) :
            /\ ar = [pc |-> "ready", w |-> StorageBits, origin |-> src,
                     a |-> Build(src), b |-> b, op |-> "none", out |-> NoResult]
            /\ sq = Idle /\ tr = Idle /\ fm = Idle /\ mem = <<>> /\ kn = <<>>
            /\ cv = Idle /\ cs = Idle
    \/ \E a \in EdgeInts, b \in EdgeInts :
            /\ ar = [pc |-> "ready", w |-> IntBits,
                     origin |-> [ctor |-> "raw", n |-> a, e |-> 0],
                     a |-> a, b |-> b, op |-> "none", out |-> NoResult]
            /\ sq = Idle /\ tr = Idle /\ fm = Idle /\ mem = <<>> /\ kn = <<>>
            /\ cv = Idle /\ cs = Idle

Return(op, o) ==
    /\ ar' = [ar EXCEPT !.pc = "done", !.op = op, !.out = o]
    /\ UNCHANGED <<sq, tr, fm, mem, kn, cv, cs>>

CallAdd ==
    /\ ar.pc = "ready"
    /\ \E o \in Add(ar.a, ar.b, ar.w) : Return("add", o)

CallSub ==
    /\ ar.pc = "ready"
    /\ \E o \in Sub(ar.a, ar.b, ar.w) : Return("sub", o)

CallNeg ==
    /\ ar.pc = "ready"
    /\ \E o \in Neg(ar.a, ar.w) : Return("neg", o)

CallMul ==
    /\ ar.pc = "ready"
    /\ ar.w = StorageBits
    /\ Return("mul", Value(Mul(ar.a, ar.b)))

CallDiv ==
    /\ ar.pc = "ready"
    /\ ar.w = StorageBits
    /\ \E o \in IF ar.b = 0 THEN DivByZero(ar.a) ELSE {Div(ar.a, ar.b)} :
         Return("div", o)

CallMod ==
    /\ ar.pc = "ready"
    /\ ar.w = StorageBits
    /\ \E o \in IF ar.b = 0 THEN ModByZero(ar.a) ELSE {Mod(ar.a, ar.b)} :
         Return("mod", o)

CallTruncate ==
    /\ ar.pc = "ready"
    /\ ar.w = StorageBits
    /\ Return("truncate", Value(Truncate(ar.a)))

ArithNext ==
    \/ CallAdd
    \/ CallSub
    \/ CallNeg
    \/ CallMul
    \/ CallDiv
    \/ CallMod
    \/ CallTruncate

SpecArith == ArithInit /\ [][ArithNext]_vars

(***************************************************************************)
(* Single-precision floats of sqrt_cexpr, in units of 2^-24                *)
(***************************************************************************)

FloatUnitBits == 24

\* The spacing of the floats around v >= 2^24 units (a value >= 1.0).
RECURSIVE Ulp(_)
Ulp(v) == IF v < Pow2(FloatUnitBits + 1) THEN 2 ELSE 2 * Ulp(v \div 2)

\* Round to nearest, ties to even: v units plus, when sticky, a fraction of
\* a unit.
RoundFloat(v, sticky) ==
    LET u == Ulp(v)
        q == v \div u
        r == v % u
        up == r > u \div 2 \/ (r = u \div 2 /\ (sticky \/ q % 2 = 1))
    IN  (IF up THEN q + 1 ELSE q) * u

\* n more bits of the quotient q (remainder r) of a division by c.
RECURSIVE DivBits(_, _, _, _)
DivBits(q, r, c, n) ==
    IF n = 0 THEN <<q, r>>
    ELSE IF 2 * r >= c THEN DivBits(2 * q + 1, 2 * r - c, c, n - 1)
    ELSE DivBits(2 * q, 2 * r, c, n - 1)

\* x / c and c + y on floats >= 1.0.
FloatDiv(x, c) ==
    LET d == DivBits(x \div c, x % c, c, FloatUnitBits)
    IN  RoundFloat(d[1], d[2] # 0)

FloatAdd(c, y) == RoundFloat(c + y, FALSE)

\* detail::math::sqrt_cexpr<FracBits>(x, c, prev): Heron's method until two
\* successive estimates differ by less than 2^-FracBits.
RECURSIVE sqrt_cexpr(_, _, _)
sqrt_cexpr(x, c, prev) ==
    IF Abs(prev - c) < Pow2(FloatUnitBits - FracBits) THEN c
    ELSE sqrt_cexpr(x, FloatAdd(c, FloatDiv(x, c)) \div 2, c)

(***************************************************************************)
(* fixed(float) and operator float for fixed<12, int16_t, int32_t>         *)
(***************************************************************************)

\* The floats handed to the constructor are m * 2^-e with |m| < 2^24 and
\* e from FracBits to MaxFloatExp.
MaxFloatExp == 28

\* Integer parts of f * Scale around the places where the cast changes.
FloatQuotients ==
    {0, 1, 2, Scale - 1, Scale, Scale + 1, StorageMax - 1, StorageMax,
     StorageMax + 1, StorageMax + 2}

\* Fractions of f * Scale for the floats m * 2^-e with exponent e.
FloatRemainders(e) ==
    {0, 1, Pow2(e - FracBits) \div 2, Pow2(e - FracBits) - 1}
        \cap (0 .. Pow2(e - FracBits) - 1)

\* A float has 24 significant bits: the integer parts that m can hold.
FloatQuotientsAt(e) ==
    {q \in FloatQuotients : q < Pow2(FloatUnitBits + FracBits - e)}

FloatInputs ==
    UNION { { [m |-> s * (q * Pow2(e - FracBits) + r), e |-> e] :
                s \in {-1, 1}, q \in FloatQuotientsAt(e),
                r \in FloatRemainders(e) } :
            e \in FracBits .. MaxFloatExp }

\* static_cast<float>(n) for an integer n: the nearest float.
IntToFloat(n) ==
    IF Abs(n) < Pow2(FloatUnitBits) THEN n
    ELSE (IF n < 0 THEN -1 ELSE 1) * RoundFloat(Abs(n), FALSE)

\* The cast of f * Scale to Storage is defined when the truncated product
\* is a value of Storage.
CastDefined(m, e) ==
    CDiv(m, Pow2(e - FracBits)) \in StorageMin .. StorageMax

ConvertInit ==
    /\ \E f \in FloatInputs :
         cv = [pc |-> "ready", f |-> f, out |-> NoResult, back |-> NoResult]
    /\ ar = Idle /\ sq = Idle /\ tr = Idle /\ fm = Idle
    /\ mem = <<>> /\ kn = <<>> /\ cs = Idle

\* fixed(float f) { raw = static_cast<Storage>(f * static_cast<float>(Scale)); }
\* An out-of-range cast is undefined: it yields some value or none.
Construct ==
    /\ cv.pc = "ready"
    /\ \E o \in IF CastDefined(cv.f.m, cv.f.e)
                THEN {Value(FromFloat(cv.f.m, cv.f.e, StorageBits))}
                ELSE {Value(FromFloat(cv.f.m, cv.f.e, StorageBits)), Fault} :
         cv' = [cv EXCEPT !.pc = IF o = Fault THEN "done" ELSE "built", !.out = o]
    /\ UNCHANGED <<ar, sq, tr, fm, mem, kn, cs>>

\* operator float: static_cast<float>(raw) / static_cast<float>(Scale).
ToFloat ==
    /\ cv.pc = "built"
    /\ cv' = [cv EXCEPT !.pc = "done",
                        !.back = [m |-> IntToFloat(cv.out.raw), e |-> FracBits]]
    /\ UNCHANGED <<ar, sq, tr, fm, mem, kn, cs>>

ConvertNext ==
    \/ Construct
    \/ ToFloat

SpecConvert == ConvertInit /\ [][ConvertNext]_vars

(***************************************************************************)
(* sqrt<T, Iterations, LutLimit> for T = fixed<12, int16_t, int32_t>       *)
(***************************************************************************)

Iterations == 2
LutLimit == 1024

Min(m, n) == IF m < n THEN m ELSE n

NElements == Min(LutLimit, Shl(1, IntegralBits))

\* fixed_aux(0.5f) and fixed_aux(1.0f).
AuxHalf == FromFloat(Pow2(FloatUnitBits - 1), FloatUnitBits, IntermediateBits)
AuxOne == FromFloat(Pow2(FloatUnitBits), FloatUnitBits, IntermediateBits)

\* The seed table built by the constexpr lambda.
SQRT_LUT ==
    [i \in 0 .. NElements - 1 |->
        IF i = 0 THEN AuxHalf
        ELSE FromFloat(sqrt_cexpr(i * Pow2(FloatUnitBits),
                                  i * Pow2(FloatUnitBits), 0),
                       FloatUnitBits, IntermediateBits)]

\* The operators on fixed_aux = fixed<12, int32_t, int32_t>.
AuxMul(a, b) == Shr(a * b, FracBits)
AuxDiv(a, b) == CDiv(Shl(a, FracBits), b)

\* One Newton-Raphson update of x toward the root of a.
NewtonStep(x, a) ==
    x - AuxMul(AuxMul(AuxMul(x, x) - a, AuxDiv(AuxOne, x)), AuxHalf)

SqrtInit ==
    /\ \E v \in Raws :
         sq = [pc |-> "entry", value |-> v, x |-> 0, i |-> 0,
               reads |-> <<>>, divisors |-> <<>>, ret |-> NoResult]
    /\ ar = Idle /\ tr = Idle /\ fm = Idle /\ mem = <<>> /\ kn = <<>>
    /\ cv = Idle /\ cs = Idle

\* The entry check written as: if (value <= T(0)) return value;
SqrtEntryReturnsInput ==
    /\ sq.pc = "entry"
    /\ sq' = IF sq.value <= FromInt(0, StorageBits)
             THEN [sq EXCEPT !.pc = "done", !.ret = Value(sq.value)]
             ELSE [sq EXCEPT !.pc = "seed"]
    /\ UNCHANGED <<ar, tr, fm, mem, kn, cv, cs>>

\* if (value < T(0)) return 0;
SqrtEntry ==
    /\ sq.pc = "entry"
    /\ sq' = IF sq.value < FromInt(0, StorageBits)
             THEN [sq EXCEPT !.pc = "done", !.ret = Value(FromInt(0, StorageBits))]
             ELSE [sq EXCEPT !.pc = "seed"]
    /\ UNCHANGED <<ar, tr, fm, mem, kn, cv, cs>>

\* x = SQRT_LUT[truncated]: 1 << IntegralBits is below LutLimit, so the
\* read is not bounds-checked; outside the table it yields no defined value.
SqrtSeed ==
    /\ sq.pc = "seed"
    /\ LET truncated == Truncate(sq.value)
       IN  /\ truncated \in DOMAIN SQRT_LUT
           /\ sq' = [sq EXCEPT !.pc = "loop", !.x = SQRT_LUT[truncated],
                               !.reads = Append(@, truncated)]
    /\ UNCHANGED <<ar, tr, fm, mem, kn, cv, cs>>

\* The loop with the condition x.raw && i <= Iterations.
SqrtIterateOnceMore ==
    /\ sq.pc = "loop"
    /\ sq.x # 0 /\ sq.i <= Iterations
    /\ sq' = [sq EXCEPT !.x = NewtonStep(sq.x, sq.value), !.i = @ + 1,
                        !.divisors = Append(@, sq.x)]
    /\ UNCHANGED <<ar, tr, fm, mem, kn, cv, cs>>

\* for (i = 0; x.raw && i < Iterations; i++) { inv_x = 1 / x; x = ... }
SqrtIterate ==
    /\ sq.pc = "loop"
    /\ sq.x # 0 /\ sq.i < Iterations
    /\ sq' = [sq EXCEPT !.x = NewtonStep(sq.x, sq.value), !.i = @ + 1,
                        !.divisors = Append(@, sq.x)]
    /\ UNCHANGED <<ar, tr, fm, mem, kn, cv, cs>>

\* return T::from_raw(static_cast<Storage>(x.raw));
SqrtReturn ==
    /\ sq.pc = "loop"
    /\ ~(sq.x # 0 /\ sq.i < Iterations)
    /\ sq' = [sq EXCEPT !.pc = "done", !.ret = Value(Wrap(sq.x, StorageBits))]
    /\ UNCHANGED <<ar, tr, fm, mem, kn, cv, cs>>

SqrtNext ==
    \/ SqrtEntry
    \/ SqrtSeed
    \/ SqrtIterate
    \/ SqrtReturn

SpecSqrt == SqrtInit /\ [][SqrtNext]_vars

(***************************************************************************)
(* sin and cos for T = fixed<12, int16_t, int32_t>                         *)
(***************************************************************************)

\* std::numbers::pi_v<float> is PiMantissa * 2^-22, and 2.0f / pi is
\* InvHalfPiMantissa * 2^-24.
PiMantissa == 13176795
InvHalfPiMantissa == 10680707

pi == FromFloat(PiMantissa, 22, StorageBits)
two_pi == FromFloat(PiMantissa, 21, StorageBits)
inverse_half_pi == FromFloat(InvHalfPiMantissa, 24, StorageBits)

\* T(1.0f) and T(-1.0f).
One == FromFloat(Pow2(FloatUnitBits), FloatUnitBits, StorageBits)
MinusOne == FromFloat(-Pow2(FloatUnitBits), FloatUnitBits, StorageBits)

\* The polynomial coefficients: -0.16605f, 0.00761f, -0.49670f, 0.03705f.
SinA1Mantissa == -11143427
SinA2Mantissa == 16342351
CosA1Mantissa == -16666486
CosA2Mantissa == 9945534

sin_a1 == FromFloat(SinA1Mantissa, 26, StorageBits)
sin_a2 == FromFloat(SinA2Mantissa, 31, StorageBits)
cos_a1 == FromFloat(CosA1Mantissa, 25, StorageBits)
cos_a2 == FromFloat(CosA2Mantissa, 28, StorageBits)

\* detail::get_trig_quadrant.
get_trig_quadrant(value) ==
    CMod(Abs(Truncate(Mul(value, inverse_half_pi))), 4)

\* detail::remap_trig_parameter; outside the four cases the local is
\* returned unassigned, and any Storage value may come back.
remap_trig_parameter(x, quadrant) ==
    LET value == Wrap(CMod(x, two_pi), StorageBits)
    IN  CASE quadrant = 0 -> {value}
          [] quadrant = 1 -> {Minus(pi, value)}
          [] quadrant = 2 -> {Minus(value, pi)}
          [] quadrant = 3 -> {Minus(two_pi, value)}
          [] OTHER -> Raws

\* detail::sin_quadrant.
sin_quadrant(value, quadrant) ==
    LET result ==
            Mul(value,
                Plus(One,
                     Mul(Mul(value, value),
                         Plus(sin_a1, Mul(Mul(sin_a2, value), value)))))
        sign == IF quadrant < 2 THEN One ELSE MinusOne
    IN  Mul(sign, result)

\* detail::cos_quadrant.
cos_quadrant(value, quadrant) ==
    LET sign == IF quadrant = 0 \/ quadrant = 3 THEN One ELSE MinusOne
        result ==
            Plus(One,
                 Mul(value,
                     Mul(value,
                         Plus(cos_a1, Mul(Mul(value, value), cos_a2)))))
    IN  Mul(sign, result)

\* The sign fold shared by sin and cos.
Coeff(x) == IF x < 0 THEN MinusOne ELSE One

TrigInit ==
    /\ \E x \in Raws :
         tr = [pc |-> "ready", x |-> x, fn |-> "none", quadrant |-> 0,
               remapped |-> 0, out |-> NoResult]
    /\ ar = Idle /\ sq = Idle /\ fm = Idle /\ mem = <<>> /\ kn = <<>>
    /\ cv = Idle /\ cs = Idle

\* The quadrant of x and the remapped argument, as sin and cos compute them.
Reduce(x) ==
    LET quadrant == get_trig_quadrant(x)
    IN  {[quadrant |-> quadrant, remapped |-> r] :
            r \in remap_trig_parameter(Mul(Coeff(x), x), quadrant)}

Sin ==
    /\ tr.pc = "ready"
    /\ \E red \in Reduce(tr.x) :
         tr' = [tr EXCEPT
                   !.pc = "done", !.fn = "sin", !.quadrant = red.quadrant,
                   !.remapped = red.remapped,
                   !.out = Value(Mul(Coeff(tr.x),
                                     sin_quadrant(red.remapped, red.quadrant)))]
    /\ UNCHANGED <<ar, sq, fm, mem, kn, cv, cs>>

Cos ==
    /\ tr.pc = "ready"
    /\ \E red \in Reduce(tr.x) :
         tr' = [tr EXCEPT
                   !.pc = "done", !.fn = "cos", !.quadrant = red.quadrant,
                   !.remapped = red.remapped,
                   !.out = Value(cos_quadrant(red.remapped, red.quadrant))]
    /\ UNCHANGED <<ar, sq, fm, mem, kn, cv, cs>>

TrigNext ==
    \/ Sin
    \/ Cos

SpecTrig == TrigInit /\ [][TrigNext]_vars

(***************************************************************************)
(* The argument reduction of sin and cos in the formats of test.cpp        *)
(***************************************************************************)

\* fixed_q4_12, fixed_q8_8 and fixed_q16_16: FractionalBits and the widths
\* of Storage and Intermediate.
Q4_12 == [frac |-> 12, storage |-> 16, inter |-> 32]
Q8_8 == [frac |-> 8, storage |-> 16, inter |-> 32]
Q16_16 == [frac |-> 16, storage |-> 32, inter |-> 64]
Formats == {Q4_12, Q8_8, Q16_16}

ScaleIn(fmt) == Pow2(fmt.frac)

\* fixed(float f) in a format, for the float m * 2^-e.
FromFloatIn(fmt, m, e) == Wrap(CDiv(m, Pow2(e - fmt.frac)), fmt.storage)

\* x / y and x % y of C++ for y > 0, on every int x.
QuotientBy(x, y) == IF x < 0 /\ x % y # 0 THEN (x \div y) + 1 ELSE x \div y
RemainderBy(x, y) == IF x < 0 /\ x % y # 0 THEN (x % y) - y ELSE x % y

\* -x cast to a signed integer of w bits.
NegateTo(x, w) == IF w >= IntBits /\ x = IntMin THEN IntMin ELSE Wrap(-x, w)

\* (a * b) >> n on 64-bit integers, for a an int32_t and 0 <= b <= 2^16,
\* n >= 16: the product taken in parts of a that fit an int.
ShrProduct(a, b, n) ==
    LET ah == a \div Pow2(16)
        al == a % Pow2(16)
        low == ((al \div 256) * b + ((al % 256) * b) \div 256) \div 256
    IN  (ah * b + low) \div Pow2(n - 16)

\* Whether the bits that (a * b) >> 16 drops are all zero.
ProductExact(a, b) ==
    LET al == a % Pow2(16)
    IN  ((((al \div 256) * b) % 256) * 256 + (al % 256) * b) % Pow2(16) = 0

\* (a * b) >> n cast to w bits, on 64-bit integers, for |b| <= 2^16.
ShrProductTo(a, b, n, w) ==
    IF b >= 0 THEN Wrap(ShrProduct(a, b, n), w)
    ELSE IF ProductExact(a, -b) THEN NegateTo(ShrProduct(a, -b, n), w)
    ELSE NegateTo(ShrProduct(a, -b, n) + 1, w)

\* operator* in a format.  With a 64-bit Intermediate one operand has a
\* magnitude of Scale at most, which holds for every product of the
\* reduction, and the product is taken with that operand second.
MulIn(fmt, a, b) ==
    IF fmt.inter <= IntBits THEN Wrap(Shr(a * b, fmt.frac), fmt.storage)
    ELSE IF -ScaleIn(fmt) <= b /\ b <= ScaleIn(fmt)
         THEN ShrProductTo(a, b, fmt.frac, fmt.storage)
         ELSE ShrProductTo(b, a, fmt.frac, fmt.storage)

\* truncate in a format.
TruncateIn(fmt, a) == Wrap(QuotientBy(a, ScaleIn(fmt)), fmt.storage)

\* detail::math::abs_cexpr<T> on a signed integer of w bits.
abs_cexpr(x, w) == IF x < 0 THEN NegateTo(x, w) ELSE x

\* get_trig_quadrant without abs_cexpr.
QuadrantOfSigned(fmt, value) ==
    CMod(TruncateIn(fmt, MulIn(fmt, value,
                               FromFloatIn(fmt, InvHalfPiMantissa, 24))), 4)

\* detail::get_trig_quadrant in a format.
QuadrantIn(fmt, value) ==
    LET quadrant ==
            TruncateIn(fmt, MulIn(fmt, value,
                                  FromFloatIn(fmt, InvHalfPiMantissa, 24)))
    IN  RemainderBy(abs_cexpr(quadrant, fmt.storage), 4)

\* Values a Storage of the format holds by chance.
Leftovers(fmt) ==
    IF fmt.storage < IntBits
    THEN {-Pow2(fmt.storage - 1), -1, 0, 1, Pow2(fmt.storage - 1) - 1}
    ELSE {IntMin, -1, 0, 1, IntMax}

\* detail::remap_trig_parameter in a format: the case of the switch that
\* runs and the value returned.  The differences stay inside Storage.
RemapIn(fmt, x, quadrant) ==
    LET pi_ == FromFloatIn(fmt, PiMantissa, 22)
        two_pi_ == FromFloatIn(fmt, PiMantissa, 21)
        value == Wrap(RemainderBy(x, two_pi_), fmt.storage)
        ran(r) == {[assigned |-> TRUE, remapped |-> Wrap(r, fmt.storage)]}
    IN  CASE quadrant = 0 -> ran(value)
          [] quadrant = 1 -> ran(pi_ - value)
          [] quadrant = 2 -> ran(value - pi_)
          [] quadrant = 3 -> ran(two_pi_ - value)
          [] OTHER -> {[assigned |-> FALSE, remapped |-> r] :
                          r \in Leftovers(fmt)}

\* Distance between the raw values sampled for fixed_q16_16.
LongStride == 131071

\* Raw values of fixed_q16_16: the sampled ones, the ends of the range and
\* those around the multiples of pi / 2.
LongRaws ==
    {k * LongStride : k \in -(IntMax \div LongStride) .. IntMax \div LongStride}
    \cup {IntMin, IntMin + 1, IntMax - 1, IntMax}
    \cup {s * (k * (FromFloatIn(Q16_16, PiMantissa, 22) \div 2) + d) :
             s \in {-1, 1}, k \in 0 .. 9, d \in -2 .. 2}

RawsIn(fmt) == IF fmt.storage = StorageBits THEN Raws ELSE LongRaws

ReduceInit ==
    /\ \E fmt \in Formats : \E x \in RawsIn(fmt) :
         tr = [pc |-> "entry", fmt |-> fmt, x |-> x, quadrant |-> 0,
               assigned |-> FALSE, remapped |-> 0]
    /\ ar = Idle /\ sq = Idle /\ fm = Idle /\ mem = <<>> /\ kn = <<>>
    /\ cv = Idle /\ cs = Idle

\* const auto quadrant = detail::get_trig_quadrant(x);
GetQuadrant ==
    /\ tr.pc = "entry"
    /\ tr' = [tr EXCEPT !.pc = "remap", !.quadrant = QuadrantIn(tr.fmt, tr.x)]
    /\ UNCHANGED <<ar, sq, fm, mem, kn, cv, cs>>

\* const T remapped = detail::remap_trig_parameter(coeff * x, quadrant);
Remap ==
    /\ tr.pc = "remap"
    /\ \E r \in RemapIn(tr.fmt,
                        MulIn(tr.fmt,
                              IF tr.x < 0 THEN -ScaleIn(tr.fmt)
                              ELSE ScaleIn(tr.fmt),
                              tr.x),
                        tr.quadrant) :
         tr' = [tr EXCEPT !.pc = "done", !.assigned = r.assigned,
                          !.remapped = r.remapped]
    /\ UNCHANGED <<ar, sq, fm, mem, kn, cv, cs>>

ReduceNext ==
    \/ GetQuadrant
    \/ Remap

SpecReduce == ReduceInit /\ [][ReduceNext]_vars

(***************************************************************************)
(* The seed of sqrt in the formats of test.cpp                             *)
(***************************************************************************)

IntegralBitsIn(fmt) == fmt.storage - fmt.frac

\* SQRT_LUT.size(): NElements in a format.
NElementsIn(fmt) == Min(LutLimit, Shl(1, IntegralBitsIn(fmt)))

\* if constexpr ((1 << T::IntegralBits) >= LutLimit) with the condition
\* taken as false in every format.
NeverBoundsChecked(fmt) == FALSE

\* if constexpr ((1 << T::IntegralBits) >= LutLimit): whether the read of
\* the table is bounds-checked.
BoundsChecked(fmt) == Shl(1, IntegralBitsIn(fmt)) >= LutLimit

\* The conversion of an int to std::size_t.  A negative int becomes a value
\* above 2^63, which the largest int stands for.
ToSize(t) == IF t < 0 THEN IntMax ELSE t

\* The seed, named by where it comes from: entry at of the table, or the
\* raw value of the argument widened to Intermediate.
FromTable(at) == [from |-> "table", at |-> at]
FromValue(raw) == [from |-> "value", raw |-> raw]
NoSeed == [from |-> "none"]

SeedInit ==
    /\ \E fmt \in Formats : \E v \in RawsIn(fmt) :
         sq = [pc |-> "entry", fmt |-> fmt, value |-> v, truncated |-> 0,
               reads |-> <<>>, x |-> NoSeed]
    /\ ar = Idle /\ tr = Idle /\ fm = Idle /\ mem = <<>> /\ kn = <<>>
    /\ cv = Idle /\ cs = Idle

\* if (value < T(0)) return 0;
SeedEntry ==
    /\ sq.pc = "entry"
    /\ sq' = IF sq.value < 0 THEN [sq EXCEPT !.pc = "done"]
             ELSE [sq EXCEPT !.pc = "seed"]
    /\ UNCHANGED <<ar, tr, fm, mem, kn, cv, cs>>

\* std::size_t truncated = truncate(value); and the choice of x.
SeedChoose ==
    /\ sq.pc = "seed"
    /\ LET truncated == ToSize(TruncateIn(sq.fmt, sq.value))
           lookup == [sq EXCEPT !.pc = "loop", !.truncated = truncated,
                                !.x = FromTable(truncated),
                                !.reads = Append(@, truncated)]
       IN  sq' = IF BoundsChecked(sq.fmt)
                 THEN IF truncated < NElementsIn(sq.fmt) THEN lookup
                      ELSE [sq EXCEPT !.pc = "loop", !.truncated = truncated,
                                      !.x = FromValue(sq.value)]
                 ELSE lookup
    /\ UNCHANGED <<ar, tr, fm, mem, kn, cv, cs>>

SeedNext ==
    \/ SeedEntry
    \/ SeedChoose

SpecSeed == SeedInit /\ [][SeedNext]_vars

(***************************************************************************)
(* to_string for T = fixed<12, int16_t, int32_t>                           *)
(***************************************************************************)

Digit == <<"0", "1", "2", "3", "4", "5", "6", "7", "8", "9">>

\* The decimal digits of n >= 0, most significant first.
RECURSIVE NatText(_)
NatText(n) ==
    IF n < 10 THEN <<Digit[n + 1]>>
    ELSE Append(NatText(n \div 10), Digit[(n % 10) + 1])

\* operator<< of an integer.
IntText(n) == IF n < 0 THEN <<"-">> \o NatText(-n) ELSE NatText(n)

\* The divisions by 10 that take n to 0.
RECURSIVE Log10Steps(_)
Log10Steps(n) == IF n = 0 THEN 0 ELSE 1 + Log10Steps(n \div 10)

\* max_digits without the final increment.
MaxDigitsOneLess == Log10Steps(Shl(1, FracBits - 1))

max_digits == Log10Steps(Shl(1, FracBits - 1)) + 1

\* truncate on fixed_aux, and value -= fixed_aux(truncate(value)).
AuxTruncate(raw) == CDiv(raw, Scale)
DropIntegral(raw) == raw - AuxTruncate(raw) * Scale

\* The digit loop: multiply by ten, emit the integral part, subtract it.
RECURSIVE FractionText(_, _)
FractionText(raw, i) ==
    IF BitAnd(raw, FracMask) # 0 /\ i < max_digits
    THEN <<Digit[CMod(AuxTruncate(raw * 10), 10) + 1]>>
             \o FractionText(DropIntegral(raw * 10), i + 1)
    ELSE <<>>

\* to_string.
to_string(x) ==
    LET integral == IntText(AuxTruncate(x))
        rest == DropIntegral(x)
    IN  IF BitAnd(rest, FracMask) = 0 THEN integral
        ELSE integral \o <<".">>
                 \o FractionText(IF rest < 0 THEN rest * (-1) ELSE rest, 0)

FormatInit ==
    /\ \E x \in Raws : fm = [pc |-> "ready", x |-> x, text |-> <<>>]
    /\ ar = Idle /\ sq = Idle /\ tr = Idle /\ mem = <<>> /\ kn = <<>>
    /\ cv = Idle /\ cs = Idle

ToString ==
    /\ fm.pc = "ready"
    /\ fm' = [fm EXCEPT !.pc = "done", !.text = to_string(fm.x)]
    /\ UNCHANGED <<ar, sq, tr, mem, kn, cv, cs>>

FormatNext ==
    \/ ToString

SpecFormat == FormatInit /\ [][FormatNext]_vars

(***************************************************************************)
(* to_cstring for T = fixed<12, int16_t, int32_t> and for fixed_aux        *)
(***************************************************************************)

NUL == "NUL"

\* What a cell of the caller's memory holds before the call.
Unwritten == "?"

\* char buffer[16];
BufferSize == 16

\* The largest of the buffer sizes tried with every sampled value.
MaxSize == 10

\* Raw values of fixed<12, int32_t, int32_t> with two and more integer digits.
WideRaws ==
    {12 * Scale, -12 * Scale, 12 * Scale + Scale \div 2,
     -(12 * Scale + Scale \div 2), 123 * Scale + Scale \div 2,
     -(123 * Scale + Scale \div 2), 1000 * Scale, -(1000 * Scale + 1)}

CStringInputs ==
    {[x |-> x, w |-> StorageBits, size |-> n] :
        x \in PairRaws, n \in (0 .. MaxSize) \cup {BufferSize}}
    \cup {[x |-> x, w |-> StorageBits, size |-> BufferSize] : x \in LeftRaws}
    \cup {[x |-> x, w |-> IntermediateBits, size |-> n] :
            x \in WideRaws, n \in (0 .. MaxSize) \cup {BufferSize}}

CStringInit ==
    /\ \E in \in CStringInputs :
         cs = [pc |-> "entry", x |-> in.x, w |-> in.w, size |-> in.size,
               value |-> in.x, pos |-> 0, pos_tmp |-> 0, integral |-> 0,
               i |-> 0, integral_digits |-> 0,
               str |-> [k \in 0 .. BufferSize + 1 |-> Unwritten],
               written |-> {}]
    /\ ar = Idle /\ sq = Idle /\ tr = Idle /\ fm = Idle
    /\ mem = <<>> /\ kn = <<>> /\ cv = Idle

\* str[at] = ch;
Put(c, at, ch) ==
    [c EXCEPT !.str = [k \in DOMAIN @ |-> IF k = at THEN ch ELSE @[k]],
              !.written = @ \cup {at}]

\* if (size < 1) return; the sign; integral = abs(truncate(value)).
CStrEntry ==
    /\ cs.pc = "entry"
    /\ cs' = IF cs.size < 1 THEN [cs EXCEPT !.pc = "done"]
             ELSE LET signed == IF cs.value < 0
                                THEN [Put(cs, 0, "-") EXCEPT !.pos = 1]
                                ELSE cs
                  IN  [signed EXCEPT !.pc = "integral",
                                     !.integral = Abs(AuxTruncate(cs.value)),
                                     !.pos_tmp = signed.pos]
    /\ UNCHANGED <<ar, sq, tr, fm, mem, kn, cv>>

\* while (integral > 0 && pos < size - 1) { str[pos] = digits[integral % 10]; ... }
CStrIntegralDigit ==
    /\ cs.pc = "integral"
    /\ cs.integral > 0 /\ cs.pos < cs.size - 1
    /\ cs' = [Put(cs, cs.pos, Digit[(cs.integral % 10) + 1])
                EXCEPT !.integral = cs.integral \div 10, !.pos = cs.pos + 1]
    /\ UNCHANGED <<ar, sq, tr, fm, mem, kn, cv>>

CStrIntegralEnd ==
    /\ cs.pc = "integral"
    /\ ~(cs.integral > 0 /\ cs.pos < cs.size - 1)
    /\ cs' = [cs EXCEPT !.pc = "reverse", !.i = cs.pos_tmp]
    /\ UNCHANGED <<ar, sq, tr, fm, mem, kn, cv>>

\* for (i = pos_tmp; i < pos; i++) { swap str[i] and str[pos - i - 1] }
CStrReverse ==
    /\ cs.pc = "reverse"
    /\ cs.i < cs.pos
    /\ LET a == cs.str[cs.i]
           b == cs.str[cs.pos - cs.i - 1]
       IN  cs' = [Put(Put(cs, cs.i, b), cs.pos - cs.i - 1, a)
                    EXCEPT !.i = cs.i + 1]
    /\ UNCHANGED <<ar, sq, tr, fm, mem, kn, cv>>

\* From the end of the reversal to the start of the fraction loop.
CStrPoint ==
    /\ cs.pc = "reverse"
    /\ ~(cs.i < cs.pos)
    /\ LET rest == DropIntegral(cs.value)
           dotted == [Put(cs, cs.pos, ".") EXCEPT !.pos = cs.pos + 1,
                                                   !.value = rest]
       IN  cs' =
             IF cs.pos = cs.size
             THEN [Put(cs, cs.size - 1, NUL) EXCEPT !.pc = "done"]
             ELSE IF BitAnd(rest, FracMask) = 0
             THEN [Put(cs, cs.pos, NUL) EXCEPT !.pc = "done", !.value = rest]
             ELSE IF dotted.pos = cs.size
             THEN [Put(dotted, cs.size - 1, NUL) EXCEPT !.pc = "done"]
             ELSE [dotted EXCEPT !.pc = "fraction",
                                 !.value = IF rest < 0 THEN rest * (-1) ELSE rest,
                                 !.integral_digits = dotted.pos]
    /\ UNCHANGED <<ar, sq, tr, fm, mem, kn, cv>>

\* The condition of the fraction loop without the check of the buffer size.
MoreDigitsUnbounded(c) ==
    /\ BitAnd(c.value, FracMask) # 0
    /\ c.pos - c.integral_digits < max_digits

\* The condition of the fraction loop.
MoreDigits(c) ==
    /\ BitAnd(c.value, FracMask) # 0
    /\ c.pos < c.size - 1
    /\ c.pos - c.integral_digits < max_digits

\* value.raw *= 10; str[pos] = digits[truncate(value) % 10]; ...
CStrFractionDigit ==
    /\ cs.pc = "fraction"
    /\ MoreDigits(cs)
    /\ LET tenfold == cs.value * 10
       IN  cs' = [Put(cs, cs.pos, Digit[CMod(AuxTruncate(tenfold), 10) + 1])
                    EXCEPT !.value = DropIntegral(tenfold), !.pos = cs.pos + 1]
    /\ UNCHANGED <<ar, sq, tr, fm, mem, kn, cv>>

\* str[pos] = '\0';
CStrTerminate ==
    /\ cs.pc = "fraction"
    /\ ~MoreDigits(cs)
    /\ cs' = [Put(cs, cs.pos, NUL) EXCEPT !.pc = "done"]
    /\ UNCHANGED <<ar, sq, tr, fm, mem, kn, cv>>

CStringNext ==
    \/ CStrEntry
    \/ CStrIntegralDigit
    \/ CStrIntegralEnd
    \/ CStrReverse
    \/ CStrPoint
    \/ CStrFractionDigit
    \/ CStrTerminate

SpecCString == CStringInit /\ [][CStringNext]_vars

(***************************************************************************)
(* simd_neon: add, sub, mul and shl_immediate over arrays of int16_t        *)
(***************************************************************************)

ElementBits == 16
vlanes == 8
IterSize == 4
vchunk == vlanes * IterSize

\* The largest element count handed to a kernel.
MaxDim == 66

\* Memory: a at ABase, b at BBase, a separate result buffer at RBase, and
\* the result buffer of a second caller at R2Base.
ABase == 0
BBase == ABase + MaxDim
RBase == BBase + MaxDim
R2Base == RBase + MaxDim
MemSize == R2Base + MaxDim

\* The input arrays: element i is start + i * step, as an int16_t.
Ramp(r, i) == Wrap(r.start + i * r.step, ElementBits)

InputRamps ==
    { [a |-> [start |-> 1, step |-> 1], b |-> [start |-> 3, step |-> 2]],
      [a |-> [start |-> 32700, step |-> 3], b |-> [start |-> 60, step |-> 5]],
      [a |-> [start |-> -17, step |-> -1021], b |-> [start |-> 255, step |-> -7]] }

\* What the result buffer holds before the call.
Fills == {0, -1}

\* neon_op::load and neon_op::store: vlanes consecutive elements.
load(m, p) == [l \in 0 .. vlanes - 1 |-> m[p + l + 1]]
store(m, p, v) ==
    [q \in DOMAIN m |-> IF q - 1 \in p .. p + vlanes - 1 THEN v[q - 1 - p] ELSE m[q]]

\* The operation on one element: vaddq_s16, vsubq_s16, vmulq_s16 and
\* vshlq_n_s16, vshrq_n_s16 on a lane, and a[i] + b[i], a[i] - b[i],
\* a[i] * b[i] and a[i] << Bits stored to an int16_t.
Lane(op, x, y) ==
    CASE op = "add" -> Wrap(x + y, ElementBits)
      [] op = "sub" -> Wrap(x - y, ElementBits)
      [] op = "mul" -> Wrap(x * y, ElementBits)
      [] op = "shl" -> Wrap(Shl(x, y), ElementBits)
      [] op = "shr" -> Shr(x, y)

\* The scalar loop of shr_immediate with a right shift.
TailLaneShiftsRight(op, x, y) == Lane(op, x, y)

\* The operation of the scalar loop on one element: that of the vector
\* loop, except in shr_immediate, whose scalar loop stores a[i] << Bits.
TailLane(op, x, y) ==
    IF op = "shr" THEN Wrap(Shl(x, y), ElementBits) ELSE Lane(op, x, y)

\* The template argument Bits of shl_immediate.
ShiftBits == {0, 2, ElementBits - 1}

\* The template argument Bits of shr_immediate (vshrq_n_s16 takes 1 to 16).
ShrBits == {1, 2, ElementBits - 1}

\* The kernels with an immediate in the place of the second array.
Shifts == {"shl", "shr"}

\* The kernels called: the operation, and Bits for a shift.
Calls ==
    {[op |-> op, bits |-> 0] : op \in {"add", "sub", "mul"}}
    \cup {[op |-> "shl", bits |-> n] : n \in ShiftBits}
    \cup {[op |-> "shr", bits |-> n] : n \in ShrBits}

\* The second operand of element at of invocation c: b[at], or Bits.
Second(c, m, at) == IF c.op \in Shifts THEN c.bits ELSE m[c.b + at + 1]

\* const std::size_t offset = dim / vchunk;
TailOffset(dim) == dim \div vchunk

NoVectors == [j \in 0 .. IterSize - 1 |-> <<>>]

\* The memory before the call: the two input arrays and the result buffers.
InitialMemory(in, fill) ==
    [q \in 1 .. MemSize |->
        IF q - 1 < BBase THEN Ramp(in.a, q - 1 - ABase)
        ELSE IF q - 1 < RBase THEN Ramp(in.b, q - 1 - BBase)
        ELSE fill]

\* An invocation at its entry.
Invocation(call, a, b, result, dim, in, fill) ==
    [pc |-> "call", op |-> call.op, bits |-> call.bits, a |-> a, b |-> b,
     result |-> result, dim |-> dim, in |-> in, fill |-> fill,
     i |-> 0, j |-> 0, va |-> NoVectors, vb |-> NoVectors,
     vresult |-> NoVectors, written |-> {}]

KernelInit ==
    /\ \E call \in Calls, dim \in 0 .. MaxDim,
          in \in InputRamps, fill \in Fills, result \in {RBase, ABase} :
         /\ mem = InitialMemory(in, fill)
         /\ kn = <<Invocation(call, ABase, BBase, result, dim, in, fill)>>
    /\ ar = Idle /\ sq = Idle /\ tr = Idle /\ fm = Idle /\ cv = Idle /\ cs = Idle

\* The loop to run after chunk i - 1: the next chunk, or the scalar loop.
AfterChunk(c, i) ==
    IF i < c.dim \div vchunk
    THEN [c EXCEPT !.pc = "load", !.i = i, !.j = 0]
    ELSE [c EXCEPT !.pc = "tail", !.i = 0, !.j = 0]

KernelCall(k) ==
    /\ kn[k].pc = "call"
    /\ kn' = [kn EXCEPT ![k] = AfterChunk(@, 0)]
    /\ UNCHANGED <<ar, sq, tr, fm, mem, cv, cs>>

\* va[j] = load(&a[i * vchunk + j * vlanes]); vb[j] = load(&b[...]);
KernelLoad(k) ==
    LET c == kn[k]
        at == c.i * vchunk + c.j * vlanes
    IN  /\ c.pc = "load"
        /\ kn' = [kn EXCEPT ![k] =
                    [c EXCEPT !.va[c.j] = load(mem, c.a + at),
                              !.vb[c.j] = IF c.op \in Shifts THEN @
                                          ELSE load(mem, c.b + at),
                              !.j = IF c.j + 1 < IterSize THEN c.j + 1 ELSE 0,
                              !.pc = IF c.j + 1 < IterSize THEN "load" ELSE "op"]]
        /\ UNCHANGED <<ar, sq, tr, fm, mem, cv, cs>>

\* vresult[j] = neon_op::add(va[j], vb[j]), for every j.
KernelOp(k) ==
    LET c == kn[k]
    IN  /\ c.pc = "op"
        /\ kn' = [kn EXCEPT ![k] =
                    [c EXCEPT !.vresult =
                                [j \in 0 .. IterSize - 1 |->
                                   [l \in 0 .. vlanes - 1 |->
                                      Lane(c.op, c.va[j][l],
                                           IF c.op \in Shifts THEN c.bits
                                           ELSE c.vb[j][l])]],
                              !.pc = "store"]]
        /\ UNCHANGED <<ar, sq, tr, fm, mem, cv, cs>>

\* The store loop with a in the place of result.
KernelStoreIntoA(k) ==
    LET c == kn[k]
        at == c.a + c.i * vchunk + c.j * vlanes
        d == [c EXCEPT !.written = @ \cup (at .. at + vlanes - 1)]
    IN  /\ c.pc = "store"
        /\ mem' = store(mem, at, c.vresult[c.j])
        /\ kn' = [kn EXCEPT ![k] =
                    IF c.j + 1 < IterSize THEN [d EXCEPT !.j = c.j + 1]
                    ELSE AfterChunk(d, c.i + 1)]
        /\ UNCHANGED <<ar, sq, tr, fm, cv, cs>>

\* store(&result[i * vchunk + j * vlanes], vresult[j]);
KernelStore(k) ==
    LET c == kn[k]
        at == c.result + c.i * vchunk + c.j * vlanes
        d == [c EXCEPT !.written = @ \cup (at .. at + vlanes - 1)]
    IN  /\ c.pc = "store"
        /\ mem' = store(mem, at, c.vresult[c.j])
        /\ kn' = [kn EXCEPT ![k] =
                    IF c.j + 1 < IterSize THEN [d EXCEPT !.j = c.j + 1]
                    ELSE AfterChunk(d, c.i + 1)]
        /\ UNCHANGED <<ar, sq, tr, fm, cv, cs>>

\* result[i + offset] = a[i + offset] op b[i + offset];
KernelTail(k) ==
    LET c == kn[k]
        at == c.i + TailOffset(c.dim)
    IN  /\ c.pc = "tail"
        /\ c.i < c.dim % vchunk
        /\ mem' = [mem EXCEPT ![c.result + at + 1] =
                      TailLane(c.op, mem[c.a + at + 1], Second(c, mem, at))]
        /\ kn' = [kn EXCEPT ![k] =
                    [c EXCEPT !.i = c.i + 1,
                              !.written = @ \cup {c.result + at}]]
        /\ UNCHANGED <<ar, sq, tr, fm, cv, cs>>

KernelReturn(k) ==
    /\ kn[k].pc = "tail"
    /\ ~(kn[k].i < kn[k].dim % vchunk)
    /\ kn' = [kn EXCEPT ![k].pc = "done"]
    /\ UNCHANGED <<ar, sq, tr, fm, mem, cv, cs>>

KernelNext ==
    \/ \E k \in DOMAIN kn : KernelCall(k)
    \/ \E k \in DOMAIN kn : KernelLoad(k)
    \/ \E k \in DOMAIN kn : KernelOp(k)
    \/ \E k \in DOMAIN kn : KernelStore(k)
    \/ \E k \in DOMAIN kn : KernelTail(k)
    \/ \E k \in DOMAIN kn : KernelReturn(k)

SpecKernel == KernelInit /\ [][KernelNext]_vars

\* Two callers running a kernel each at the same time, on the same memory.
\* The first works on a and b into the first result buffer.  The second
\* writes the second result buffer or the first one, and reads a and b, or
\* reads the first caller's result buffer as its a.
ConcurrentDims == {1, vchunk + 2}

SecondBuffers ==
    { [a |-> ABase, b |-> BBase, result |-> R2Base],
      [a |-> BBase, b |-> ABase, result |-> R2Base],
      [a |-> RBase, b |-> BBase, result |-> R2Base],
      [a |-> ABase, b |-> BBase, result |-> RBase] }

ConcurrentInit ==
    /\ \E first \in {c \in Calls : c.op \in {"add", "mul"}},
          second \in {c \in Calls : c.op \in {"sub", "add"}
                                       \/ (c.op = "shl" /\ c.bits = 2)},
          dim1 \in ConcurrentDims, dim2 \in ConcurrentDims,
          in \in InputRamps, fill \in Fills, at \in SecondBuffers :
         /\ mem = InitialMemory(in, fill)
         /\ kn = <<Invocation(first, ABase, BBase, RBase, dim1, in, fill),
                   Invocation(second, at.a, at.b, at.result, dim2, in, fill)>>
    /\ ar = Idle /\ sq = Idle /\ tr = Idle /\ fm = Idle /\ cv = Idle /\ cs = Idle

SpecConcurrent == ConcurrentInit /\ [][KernelNext]_vars

(***************************************************************************)
(* Properties of the arithmetic operators                                  *)
(***************************************************************************)

Returned(op) == ar.pc = "done" /\ ar.op = op /\ ar.w = StorageBits

\* n reduced modulo 2^StorageBits equals the Storage value r.
SameStorage(n, r) == (n - r) % Pow2(StorageBits) = 0

\* C6: for every a of fixed<12,int16,int32>, a + 0 == a, a - a == 0 and
\* a * 1 == a, exactly, in raw terms.
C6_Identities ==
    /\ (Returned("add") /\ ar.b = 0) => ar.out = Value(ar.a)
    /\ (Returned("sub") /\ ar.b = ar.a) => ar.out = Value(0)
    /\ (Returned("mul") /\ ar.b = FromInt(1, StorageBits)) => ar.out = Value(ar.a)

C6_Witness ==
    /\ Returned("mul")
    /\ ar.a = StorageMin
    /\ ar.b = FromInt(1, StorageBits)
    /\ ar.out = Value(StorageMin)

\* C7: (a * b).raw is floor(a.raw * b.raw / 2^12) narrowed to 16 bits by
\* modular wrap: the quotient is rounded toward negative infinity, so
\* from_raw(-1) * from_raw(1) has raw -1.
C7_MulFloors ==
    Returned("mul") =>
        /\ \E k \in -4 .. 4 :
             LET f == ar.out.raw + k * Pow2(StorageBits)
             IN  /\ f * Pow2(FracBits) <= ar.a * ar.b
                 /\ ar.a * ar.b < (f + 1) * Pow2(FracBits)
        /\ (ar.a = -1 /\ ar.b = 1) => ar.out.raw = -1

C7_Witness ==
    Returned("mul") /\ ar.a = -1 /\ ar.b = 1 /\ ar.out = Value(-1)

\* The quotient of n by d rounded toward zero, from the rounded-down one.
TowardZero(n, d) ==
    LET s == IF d < 0 THEN -1 ELSE 1
        f == (n * s) \div (d * s)
    IN  IF f < 0 /\ f * (d * s) # n * s THEN f + 1 ELSE f

\* C8: for b.raw # 0, (a / b).raw is (a.raw * 2^12) / b.raw truncated toward
\* zero and narrowed to 16 bits by modular wrap, so from_raw(-1) /
\* from_raw(8192) has raw 0.
C8_DivTruncates ==
    (Returned("div") /\ ar.b # 0) =>
        /\ ar.out.kind = "value"
        /\ SameStorage(TowardZero(ar.a * Pow2(FracBits), ar.b), ar.out.raw)
        /\ ar.out.raw \in Raws
        /\ (ar.a = -1 /\ ar.b = 2 * Scale) => ar.out.raw = 0

C8_Witness ==
    Returned("div") /\ ar.a = -1 /\ ar.b = 2 * Scale /\ ar.out = Value(0)

\* C12: the quotient of the value 5.0 (raw 20480) by the value 3.0 (raw
\* 12288) has raw 6826, which is below 5/3.
C12_FiveByThree ==
    (Returned("div") /\ ar.a = 20480 /\ ar.b = 12288) =>
        /\ ar.out = Value(6826)
        /\ 3 * ar.out.raw < 5 * Scale

C12_Witness ==
    /\ Returned("div")
    /\ ar.origin = [ctor |-> "int", n |-> 5, e |-> 0]
    /\ ar.a = 20480
    /\ ar.b = 12288
    /\ ar.out = Value(6826)

\* C16: a / b and a % b with b.raw = 0 produce no result value for any a:
\* the operation ends in the division-by-zero fault and never returns zero
\* or any other value.
C16_ZeroDivisorFaults ==
    (ar.pc = "done" /\ ar.op \in {"div", "mod"} /\ ar.w = StorageBits /\ ar.b = 0) =>
        ar.out = Fault

\* C9: for Storage of every width w, (a + b).raw, (a - b).raw and (-a).raw
\* are the exact results reduced modulo 2^w into the signed range, and
\* negating the most negative value returns the most negative value.
C9_WrapsAtEveryWidth ==
    (ar.pc = "done" /\ ar.op \in {"add", "sub", "neg"}) =>
        /\ ar.out.kind = "value"
        /\ ar.out.raw \in -Pow2(ar.w - 2) - Pow2(ar.w - 2)
                            .. (Pow2(ar.w - 2) - 1) + Pow2(ar.w - 2)
        /\ ar.w = StorageBits =>
             SameStorage(CASE ar.op = "add" -> ar.a + ar.b
                           [] ar.op = "sub" -> ar.a - ar.b
                           [] ar.op = "neg" -> -ar.a,
                         ar.out.raw)
        /\ (ar.op = "neg" /\ ar.a = -Pow2(ar.w - 2) - Pow2(ar.w - 2)) =>
             ar.out.raw = ar.a

\* C10: truncate(x) is x.raw / 2^FracBits rounded toward zero: one more than
\* the floor for a negative non-integer x (-4 for the value built from
\* -4.99999, 2 for the one built from 2.074), and truncate(fixed(n)) == n.
C10_TruncateTowardZero ==
    Returned("truncate") =>
        LET t == ar.out.raw
        IN  /\ ar.a >= 0 => (t * Scale <= ar.a /\ ar.a < (t + 1) * Scale)
            /\ ar.a < 0 => ((t - 1) * Scale < ar.a /\ ar.a <= t * Scale)
            /\ (ar.a < 0 /\ ar.a % Scale # 0) => t = (ar.a \div Scale) + 1
            /\ ar.origin = [ctor |-> "float", n |-> -10485739, e |-> 21] => t = -4
            /\ ar.origin = [ctor |-> "float", n |-> 8698986, e |-> 22] => t = 2
            /\ ar.origin.ctor = "int" => t = ar.origin.n

C10_Witness ==
    /\ Returned("truncate")
    /\ ar.origin = [ctor |-> "float", n |-> -10485739, e |-> 21]
    /\ ar.a < 0 /\ ar.a % Scale # 0
    /\ ar.out = Value(-4)

(***************************************************************************)
(* Properties of the construction from a float                             *)
(***************************************************************************)

\* f * Scale, of magnitude |m| / d, fits Storage once truncated.
ScaledFits(m, d) ==
    IF m >= 0 THEN m \div d <= StorageMax ELSE (-m) \div d <= -StorageMin

\* C11: construction from f with f * 2^FracBits fitting Storage sets raw to
\* f * 2^FracBits truncated toward zero: raw / 2^FracBits differs from f by
\* less than 2^-FracBits, is never larger in magnitude than f, and equals f
\* when f is a multiple of 2^-FracBits; operator float returns that value.
C11_ConstructTruncates ==
    LET d == Pow2(cv.f.e - FracBits)
    IN  (cv.pc \in {"built", "done"} /\ ScaledFits(cv.f.m, d)) =>
            /\ cv.out.kind = "value"
            /\ Abs(cv.out.raw * d - cv.f.m) < d
            /\ Abs(cv.out.raw * d) <= Abs(cv.f.m)
            /\ cv.f.m % d = 0 => cv.out.raw * d = cv.f.m
            /\ cv.pc = "done" =>
                 cv.back.m * Pow2(cv.f.e - cv.back.e) = cv.out.raw * d

C11_Witness ==
    /\ cv.pc = "done"
    /\ cv.f = [m |-> -(StorageMax * Pow2(6) + Pow2(6) - 1), e |-> FracBits + 6]
    /\ cv.out = Value(-StorageMax)
    /\ cv.back = [m |-> -StorageMax, e |-> FracBits]

(***************************************************************************)
(* Properties of sqrt                                                      *)
(***************************************************************************)

\* C3: for every raw value r in [0, 32767], the raw result of sqrt differs
\* from the true square root of r * 4096 by at most 8 raw units.
C3_SqrtWithinEight ==
    (sq.pc = "done" /\ sq.value >= 0) =>
        LET n == sq.value * Scale
            s == sq.ret.raw
        IN  /\ s + 8 >= 0
            /\ (s + 8) * (s + 8) >= n
            /\ (s - 8 <= 0 \/ (s - 8) * (s - 8) <= n)

\* C5: for every negative input sqrt returns raw 0, without reading the seed
\* table and without dividing.
C5_SqrtOfNegative ==
    (sq.pc = "done" /\ sq.value < 0) =>
        /\ sq.ret = Value(0)
        /\ sq.reads = <<>>
        /\ sq.divisors = <<>>

C5_Witness ==
    /\ sq.pc = "done"
    /\ sq.value = StorageMin
    /\ sq.ret = Value(0)
    /\ sq.i = 0

\* C13: sqrt of the value 4.0 has raw within 1 of 8192, and for every
\* perfect square n = k * k inside the seed table sqrt(fixed(n)) has raw
\* within 1 of k * 2^FracBits.
C13_SqrtOfSquares ==
    sq.pc = "done" =>
        \A k \in 0 .. NElements - 1 :
            (k * k \in DOMAIN SQRT_LUT /\ k * k < Pow2(IntegralBits - 1)
               /\ sq.value = FromInt(k * k, StorageBits)) =>
                Abs(sq.ret.raw - k * Scale) <= 1

\* C24: for every non-negative input of fixed_q4_12, fixed_q8_8 and
\* fixed_q16_16, sqrt reads the seed table only at an index smaller than
\* the table size min(LutLimit, 2^IntegralBits); when the integer part of
\* the input is not smaller than the table size, which happens for
\* fixed_q16_16 only, the seed is the raw value of the input and the table
\* is not read.
C24_SeedReadsInsideTable ==
    (sq.pc = "loop" /\ sq.value >= 0) =>
        LET part == sq.value \div Pow2(sq.fmt.frac)
            size == Min(LutLimit, Pow2(sq.fmt.storage - sq.fmt.frac))
        IN  /\ \A n \in DOMAIN sq.reads : sq.reads[n] < size
            /\ part >= size =>
                  /\ sq.fmt = Q16_16
                  /\ sq.reads = <<>>
                  /\ sq.x = FromValue(sq.value)
            /\ part < size => sq.reads = <<part>> /\ sq.x = FromTable(part)

C24_Witness ==
    /\ sq.pc = "loop" /\ sq.fmt = Q16_16
    /\ sq.value >= LutLimit * ScaleIn(Q16_16)
    /\ sq.reads = <<>> /\ sq.x = FromValue(sq.value)

C29_SqrtOfZero ==
    (sq.pc = "done" /\ sq.value = 0) => sq.ret = Value(0)

\* The loop of sqrt from the seed x, and the raw result of sqrt for v.
RECURSIVE Refine(_, _, _)
Refine(x, a, i) ==
    IF x # 0 /\ i < Iterations THEN Refine(NewtonStep(x, a), a, i + 1) ELSE x

SqrtOf(v) ==
    IF v < FromInt(0, StorageBits) THEN FromInt(0, StorageBits)
    ELSE Wrap(Refine(SQRT_LUT[Truncate(v)], v, 0), StorageBits)

\* C30: sqrt is monotone non-decreasing on the non-negative values: the
\* result for a raw value is not above the result for the next raw value
\* (and so not above that for any larger one), also where the integer part
\* and with it the seed changes.
C30_SqrtMonotone ==
    (sq.pc = "done" /\ sq.value >= 0 /\ sq.value < StorageMax) =>
        sq.ret.raw <= SqrtOf(sq.value + 1)

(***************************************************************************)
(* Properties of sin and cos                                               *)
(***************************************************************************)

\* Reference values in units of 2^-20.  The product of two such values,
\* from their halves of ten bits; the part below one unit is dropped.
RefMul(a, b) ==
    LET h == Pow2(10)
        x == Abs(a)
        y == Abs(b)
        m == (x \div h) * (y \div h)
               + ((x \div h) * (y % h) + (x % h) * (y \div h)) \div h
    IN  IF (a < 0) = (b < 0) THEN m ELSE -m

\* The Taylor series of sine and cosine at y, from term n on: <<sin, cos>>.
RECURSIVE RefSeries(_, _, _, _, _)
RefSeries(y, t, n, s, c) ==
    IF n > 11 THEN <<s, c>>
    ELSE LET u == CDiv(RefMul(t, y), n)
             v == IF n % 4 < 2 THEN u ELSE -u
         IN  IF n % 2 = 1 THEN RefSeries(y, u, n + 1, s + v, c)
             ELSE RefSeries(y, u, n + 1, s, c + v)

\* The double-angle formulas.
RefDouble(sc) ==
    <<2 * RefMul(sc[1], sc[2]), Pow2(20) - 2 * RefMul(sc[1], sc[1])>>

\* <<sin, cos>> of raw / 2^12, in units of 2^-20 and within 64 units of
\* the true values: the series at an eighth of the angle, doubled thrice.
RefSinCos(raw) ==
    RefDouble(RefDouble(RefDouble(
        RefSeries(raw * Pow2(5), Pow2(20), 1, 0, Pow2(20)))))

\* C4: for every x with raw in [-two_pi.raw, two_pi.raw], sin(x) and cos(x)
\* are within 41 raw units (10^-2) of the true sine and cosine.
C4_TrigWithinBound ==
    (tr.pc = "done" /\ -two_pi <= tr.x /\ tr.x <= two_pi) =>
        LET ref == RefSinCos(tr.x)
            true == IF tr.fn = "sin" THEN ref[1] ELSE ref[2]
        IN  Abs(tr.out.raw * Pow2(8) - true) < 41 * Pow2(8) + 64

\* The raw results sin and cos can return for x.
SinOf(x) ==
    {Mul(Coeff(x), sin_quadrant(red.remapped, red.quadrant)) : red \in Reduce(x)}
CosOf(x) == {cos_quadrant(red.remapped, red.quadrant) : red \in Reduce(x)}

\* C27: for every x other than the most negative value,
\* sin(-x).raw = -sin(x).raw, also next to a quadrant boundary.
C27_SineIsOdd ==
    (tr.pc = "done" /\ tr.fn = "sin" /\ tr.x # StorageMin) =>
        \A mirrored \in SinOf(-tr.x) : mirrored = -tr.out.raw

\* C28: for every x other than the most negative value,
\* cos(-x).raw = cos(x).raw: -x is given the quadrant and the remapped
\* argument of x.
C28_CosineIsEven ==
    (tr.pc = "done" /\ tr.fn = "cos" /\ tr.x # StorageMin) =>
        /\ \A mirrored \in CosOf(-tr.x) : mirrored = tr.out.raw
        /\ Reduce(-tr.x) = Reduce(tr.x)

(***************************************************************************)
(* Properties of to_string                                                 *)
(***************************************************************************)

DigitValue(ch) == (CHOOSE d \in 1 .. 10 : Digit[d] = ch) - 1

\* The value of a run of digits, read most significant first.
RECURSIVE DigitsValue(_)
DigitsValue(t) ==
    IF t = <<>> THEN 0
    ELSE 10 * DigitsValue(SubSeq(t, 1, Len(t) - 1)) + DigitValue(t[Len(t)])

\* A signed decimal number read from text: sign, integer part, and the
\* fraction as frac / 10^places.
ParseDecimal(text) ==
    LET neg == text # <<>> /\ text[1] = "-"
        body == IF neg THEN Tail(text) ELSE text
        dots == {i \in 1 .. Len(body) : body[i] = "."}
        dot == IF dots = {} THEN Len(body) + 1 ELSE CHOOSE i \in dots : TRUE
    IN  [neg |-> neg,
         int |-> DigitsValue(SubSeq(body, 1, dot - 1)),
         frac |-> DigitsValue(SubSeq(body, dot + 1, Len(body))),
         places |-> IF dots = {} THEN 0 ELSE Len(body) - dot]

RECURSIVE Pow10(_)
Pow10(n) == IF n = 0 THEN 1 ELSE 10 * Pow10(n - 1)

\* (parsed value - raw / 2^12), multiplied by 2^12 * 10^places, when the
\* integer parts are at most two apart.
ParseError(p, raw) ==
    LET sign == IF p.neg THEN -1 ELSE 1
    IN  (sign * p.int - CDiv(raw, Scale)) * Scale * Pow10(p.places)
          + (sign * p.frac * Scale - CMod(raw, Scale) * Pow10(p.places))

\* C2: for every x, the text of to_string(x) parsed as a signed decimal
\* number differs from x.raw / 2^12 by less than 2^-12, and the parsed
\* number has the sign of x.raw.
C2_TextRoundTrip ==
    fm.pc = "done" =>
        LET p == ParseDecimal(fm.text)
        IN  /\ Abs((IF p.neg THEN -1 ELSE 1) * p.int - CDiv(fm.x, Scale)) <= 2
            /\ Abs(ParseError(p, fm.x)) < Pow10(p.places)
            /\ fm.x < 0 => (p.neg /\ p.int + p.frac > 0)
            /\ fm.x > 0 => (~p.neg /\ p.int + p.frac > 0)
            /\ fm.x = 0 => p.int + p.frac = 0

\* The digits of f / 2^FracBits after the decimal point, for 0 <= f < Scale:
\* digit i of the expansion, the number of digits after which nothing
\* remains (or most, when something remains after most digits), and the
\* first digits of the expansion.
ExpansionDigit(f, i) == ((f * Pow10(i)) \div Scale) % 10

ExpansionLength(f, most) ==
    LET ends == {n \in 1 .. most : (f * Pow10(n)) % Scale = 0}
    IN  IF ends = {} THEN most
        ELSE CHOOSE n \in ends : \A m \in ends : n <= m

Expansion(f, k) == [i \in 1 .. k |-> Digit[ExpansionDigit(f, i) + 1]]

\* C26: for every x with a non-zero fractional part, the characters of
\* to_string(x) after the '.' are the first k digits of the decimal
\* expansion of |fractional part| / 2^FracBits, not rounded, where k is the
\* smaller of max_digits = 5 and the number of digits after which nothing
\* remains; with a zero fractional part the text has no '.'.
C26_FractionDigits ==
    fm.pc = "done" =>
        LET f == Abs(fm.x) % Scale
            dots == {i \in 1 .. Len(fm.text) : fm.text[i] = "."}
        IN  IF f = 0 THEN dots = {}
            ELSE /\ Cardinality(dots) = 1
                 /\ \A dot \in dots :
                       SubSeq(fm.text, dot + 1, Len(fm.text)) =
                           Expansion(f, ExpansionLength(f, 5))

C26_Witness ==
    /\ fm.pc = "done" /\ fm.x = -(Scale + 1)
    /\ fm.text = <<"-", "1", ".", "0", "0", "0", "2", "4">>

(***************************************************************************)
(* Properties of the batch kernels                                         *)
(***************************************************************************)

\* C1: for every element count N and all inputs, after add, sub or mul with
\* a result buffer disjoint from the inputs, result[i] is the wrapped scalar
\* a[i] op b[i] for every 0 <= i < N, the tail region included.
C1_EveryElementComputed ==
    \A k \in DOMAIN kn :
        (kn[k].pc = "done" /\ kn[k].result = RBase
           /\ kn[k].op \in {"add", "sub", "mul"}) =>
            \A i \in 0 .. kn[k].dim - 1 :
                mem[kn[k].result + i + 1] =
                    Lane(kn[k].op, Ramp(kn[k].in.a, i), Ramp(kn[k].in.b, i))

\* C18: for every element count N and every Bits, shl_immediate leaves
\* res[i] equal to a[i] shifted left by Bits, wrapped to the element width,
\* for every 0 <= i < N, in the vector chunks and in the scalar remainder.
C18_EveryElementShifted ==
    \A k \in DOMAIN kn :
        (kn[k].pc = "done" /\ kn[k].result = RBase /\ kn[k].op = "shl") =>
            \A i \in 0 .. kn[k].dim - 1 :
                mem[kn[k].result + i + 1] =
                    Wrap(Ramp(kn[k].in.a, i) * Pow2(kn[k].bits), ElementBits)

\* C19: add with result equal to a leaves a_old[i] + b[i] at every index
\* i < N, as with a separate result buffer: b is added to no element twice.
C19_InPlaceAdd ==
    \A k \in DOMAIN kn :
        (kn[k].pc = "done" /\ kn[k].result = kn[k].a /\ kn[k].op = "add") =>
            \A i \in 0 .. kn[k].dim - 1 :
                mem[kn[k].result + i + 1] =
                    Wrap(Ramp(kn[k].in.a, i) + Ramp(kn[k].in.b, i), ElementBits)

\* A step of the scalar loop of invocation k of shr_immediate: it stores
\* a[j] << Bits, wrapped to the element width, at result[j] for some j, and
\* when Bits > 0 and a[j] is not zero and a[j] << Bits is an int16_t, that
\* is not a[j] >> Bits.
ShrTailStep(k) ==
    LET c == kn[k]
    IN  \E j \in 0 .. c.dim - 1 :
           LET x == mem[c.a + j + 1]
               left == Wrap(Shl(x, c.bits), ElementBits)
           IN  /\ mem' = [mem EXCEPT ![c.result + j + 1] = left]
               /\ kn'[k].written = c.written \cup {c.result + j}
               /\ (c.bits > 0 /\ x # 0 /\ Shl(x, c.bits) = left) =>
                      mem'[c.result + j + 1] # Shr(x, c.bits)

\* While invocation k of shr_immediate runs its vector chunks, every
\* element it has written is a[j] >> Bits.
ShrChunksShiftRight(k) ==
    LET c == kn[k]
    IN  c.pc \in {"load", "op", "store"} =>
           \A q \in c.written :
              mem[q + 1] = Shr(Ramp(c.in.a, q - c.result), c.bits)

\* C21: in shr_immediate every element the scalar remainder loop writes is
\* a[j] << Bits wrapped to the element width, every element the vector
\* chunks write is a[j] >> Bits, and for Bits > 0 the two differ for every
\* non-zero a[j] whose left shift does not overflow.
C21_ShrRemainderShiftsLeft ==
    /\ [](\A k \in DOMAIN kn : kn[k].op = "shr" => ShrChunksShiftRight(k))
    /\ [][\A k \in DOMAIN kn :
            (kn[k].op = "shr" /\ kn[k].pc = "tail" /\ kn'[k].pc = "tail") =>
                ShrTailStep(k)]_vars

C21_Witness ==
    /\ Len(kn) = 1
    /\ kn[1].op = "shr" /\ kn[1].bits = 2 /\ kn[1].pc = "done"
    /\ kn[1].dim = vchunk + 3 /\ kn[1].result = RBase
    /\ mem[RBase + 2 + 1] = 4 * mem[ABase + 2 + 1]
    /\ mem[RBase + 2 + 1] # Shr(mem[ABase + 2 + 1], 2)
    /\ mem[RBase + 5 + 1] = Shr(mem[ABase + 5 + 1], 2)
    /\ mem[ABase + 5 + 1] > 3

\* The cells of an array of invocation c starting at base.
Region(c, base) == base .. base + c.dim - 1

\* The inputs of invocation c: a, and b unless c is a shift.
Inputs(c) ==
    Region(c, c.a) \cup (IF c.op \in Shifts THEN {} ELSE Region(c, c.b))

\* What invocation c leaves at result[i] when it runs alone from memory m
\* with a result buffer apart from its inputs: the element computed from
\* the inputs where a vector chunk or the scalar loop stores, and what the
\* buffer held elsewhere.
Alone(c, m, i) ==
    IF i < (c.dim \div vchunk) * vchunk
         \/ (TailOffset(c.dim) <= i /\ i < TailOffset(c.dim) + (c.dim % vchunk))
    THEN Lane(c.op, m[c.a + i + 1], Second(c, m, i))
    ELSE m[c.result + i + 1]

\* Invocation k has left the result it leaves alone, and has written only
\* to its own result[0 .. count-1] and to none of its inputs.
Undisturbed(k) ==
    LET c == kn[k]
    IN  /\ c.written \subseteq Region(c, c.result)
        /\ c.written \cap Inputs(c) = {}
        /\ c.pc = "done" =>
              \A i \in 0 .. c.dim - 1 :
                 mem[c.result + i + 1] = Alone(c, InitialMemory(c.in, c.fill), i)

C22_QuadrantInRange ==
    /\ tr.pc \in {"remap", "done"} => tr.quadrant \in 0 .. 3
    /\ tr.pc = "done" => tr.assigned

C22_Witness ==
    /\ tr.pc = "done" /\ tr.fmt = Q16_16 /\ tr.x < -ScaleIn(Q16_16)
    /\ tr.quadrant = 3 /\ tr.assigned

\* C23: for fixed_q4_12 and every input other than the most negative
\* value, the argument that sin and cos hand to the polynomial has a raw
\* value from -8 to raw(pi / 2) + 8, also for the inputs at and just above
\* 2 * pi.
C23_RemappedInPrimaryQuadrant ==
    (tr.pc = "done" /\ tr.x # StorageMin) =>
        (-8 <= tr.remapped /\ tr.remapped <= FromFloat(PiMantissa, 23, StorageBits) + 8)

(***************************************************************************)
(* Properties of to_cstring                                                *)
(***************************************************************************)

\* The string in the buffer: the characters before the first NUL.
CText(c) ==
    LET nuls == {k \in 0 .. c.size - 1 : c.str[k] = NUL}
        n == CHOOSE k \in nuls : \A l \in nuls : k <= l
    IN  [k \in 1 .. n |-> c.str[k - 1]]

\* The buffer holds the complete text of x and the terminator.
LargeEnough(c) == c.size >= Len(to_string(c.x)) + 1

\* C14: to_cstring writes only to indices 0 .. size-1: nothing when size is
\* 0, and when size >= 1 it returns with a NUL at some index <= size-1.
C14_WritesInsideBuffer ==
    /\ cs.pc # "idle" => cs.written \subseteq 0 .. cs.size - 1
    /\ (cs.pc = "done" /\ cs.size = 0) => cs.written = {}
    /\ (cs.pc = "done" /\ cs.size >= 1) =>
         \E k \in 0 .. cs.size - 1 : cs.str[k] = NUL /\ k \in cs.written

C14_Witness ==
    /\ cs.pc = "done"
    /\ cs.x = StorageMin + 1
    /\ cs.size = 4
    /\ cs.written = 0 .. 3
    /\ cs.str[3] = NUL

\* C15: with a buffer large enough for the complete text and the
\* terminator, the string to_cstring leaves is equal to to_string(x).
C15_SameAsToString ==
    (cs.pc = "done" /\ LargeEnough(cs)) => CText(cs) = to_string(cs.x)

\* C20: with a large enough buffer the digits of the integer part appear
\* most significant first, directly after the optional '-': "12" for the
\* integer part 12, "-5" for -5.0.
C20_IntegerDigitsInOrder ==
    (cs.pc = "done" /\ LargeEnough(cs) /\ AuxTruncate(cs.x) # 0) =>
        LET digits == NatText(Abs(AuxTruncate(cs.x)))
            sign == IF cs.x < 0 THEN <<"-">> ELSE <<>>
            head == sign \o digits
        IN  /\ Len(CText(cs)) >= Len(head)
            /\ SubSeq(CText(cs), 1, Len(head)) = head

====
